---- MODULE Spec2Model ----
(***************************************************************************)
(* Research-assistant backend (src/server.js): an Express server whose     *)
(* five POST routes validate the request, call the OpenRouter completion   *)
(* API once, and shape the model's reply into the JSON the caller expects. *)
(*                                                                         *)
(* Text is a sequence of tokens.  A token is one character, or a literal   *)
(* chunk of the source (a message of the code, a property name) that the   *)
(* code never splits.  JavaScript values are records tagged by k.          *)
(***************************************************************************)
EXTENDS Integers, Sequences, FiniteSets, TLC

(***************************************************************************)
(* Bounds of the model.                                                    *)
(***************************************************************************)
MaxItems == 2
MaxQuestions == 2
MaxMessages == 2
MaxExtra == 1

\* rawContent.substring(0, Math.min(rawContent.length, 200))
TruncLen == 200

(***************************************************************************)
(* JavaScript values.                                                      *)
(***************************************************************************)
Undef == [k |-> "undef"]
Null == [k |-> "null"]
Fn == [k |-> "fn"]
Str(s) == [k |-> "str", v |-> s]
Num(n) == [k |-> "num", v |-> n]
Bool(b) == [k |-> "bool", v |-> b]
Arr(s) == [k |-> "arr", v |-> s]
Obj(f) == [k |-> "obj", v |-> f]
EmptyObj == Obj(<<>>)

\* A literal of the source as a text of one token.
Lit(s) == <<s>>
\* A property name.
K(s) == <<s>>

Min(a, b) == IF a <= b THEN a ELSE b

\* ToBoolean: what `!x`, `x && y` and `x || y` test.
Truthy(x) ==
  CASE x.k = "undef" -> FALSE
    [] x.k = "null" -> FALSE
    [] x.k = "str" -> Len(x.v) > 0
    [] x.k = "num" -> x.v # 0
    [] x.k = "bool" -> x.v
    [] OTHER -> TRUE

Digits == <<"0", "1", "2", "3", "4", "5", "6", "7", "8", "9">>
IsDigit(c) == \E d \in 1..10 : Digits[d] = c
DigitVal(c) == (CHOOSE d \in 1..10 : Digits[d] = c) - 1

\* Members every object inherits from Object.prototype.
ProtoKeys == {K("constructor"), K("toString"), K("valueOf"), K("hasOwnProperty")}

\* x[key] for a value x that is neither null nor undefined: own properties
\* first, then the prototype chain.
GetProp(x, key) ==
  LET inherited == IF key \in ProtoKeys THEN Fn ELSE Undef
      indexed == IF key = K("length") THEN Num(Len(x.v))
                 ELSE IF Len(key) = 1 /\ IsDigit(key[1]) /\ DigitVal(key[1]) < Len(x.v)
                      THEN IF x.k = "arr" THEN x.v[DigitVal(key[1]) + 1]
                           ELSE Str(<<x.v[DigitVal(key[1]) + 1]>>)
                 ELSE inherited
  IN CASE x.k = "obj" -> IF key \in DOMAIN x.v THEN x.v[key] ELSE inherited
       [] x.k = "arr" -> indexed
       [] x.k = "str" -> indexed
       [] OTHER -> inherited

\* Property access throws a TypeError on null and undefined.
Nullish(x) == x.k \in {"undef", "null"}

(***************************************************************************)
(* Text: whitespace, trimming, the code-fence regular expression.          *)
(***************************************************************************)
IsWs(c) == c \in {" ", "\n"}

RECURSIVE SkipWs(_, _)
\* The first index >= i of s that holds no whitespace, Len(s) + 1 if none.
SkipWs(s, i) ==
  IF i <= Len(s) /\ IsWs(s[i]) THEN SkipWs(s, i + 1) ELSE i

AllWs(s, i) == \A j \in i..Len(s) : IsWs(s[j])

\* String.prototype.trim
Trim(s) ==
  LET first == SkipWs(s, 1)
      last == IF first > Len(s) THEN 0
              ELSE CHOOSE j \in first..Len(s) : ~IsWs(s[j]) /\ AllWs(s, j + 1)
  IN IF first > Len(s) THEN <<>> ELSE SubSeq(s, first, last)

\* The backquote character (a string of this notation cannot hold it).
BQ == "bq"
FenceJson == <<BQ, BQ, BQ, "j", "s", "o", "n">>
Fence == <<BQ, BQ, BQ>>

\* rawContent.replace(/^FENCEjson\s*|FENCE\s*$/g, '').trim(), FENCE being
\* three backquotes.
\* The first alternative matches only at the start of the text, the second
\* only where a fence is followed by nothing but whitespace up to the end.
StripFence(s) ==
  LET opened == Len(s) >= 7 /\ SubSeq(s, 1, 7) = FenceJson
      from == IF opened THEN SkipWs(s, 8) ELSE 1
      closes == {j \in from..(Len(s) - 2) :
                   SubSeq(s, j, j + 2) = Fence /\ AllWs(s, j + 3)}
      upto == IF closes = {} THEN Len(s)
              ELSE (CHOOSE j \in closes : \A i \in closes : j <= i) - 1
  IN Trim(SubSeq(s, from, upto))

\* A truncation that keeps one character too many.
TruncateOneMore(s) == SubSeq(s, 1, Min(Len(s), TruncLen + 1))

\* rawContent.substring(0, Math.min(rawContent.length, 200))
Truncate(s) == SubSeq(s, 1, Min(Len(s), TruncLen))

(***************************************************************************)
(* JSON.parse, by recursive descent.  A result is [ok, val, pos]: whether  *)
(* a value was read, the value, and the index after it.                    *)
(***************************************************************************)
ParseFail == [ok |-> FALSE, val |-> Undef, pos |-> 0]
ParseOk(v, p) == [ok |-> TRUE, val |-> v, pos |-> p]

IsWord(s, i, w) == i + Len(w) - 1 <= Len(s) /\ SubSeq(s, i, i + Len(w) - 1) = w

RECURSIVE ParseChars(_, _, _)
\* The characters of a string up to its closing quote; a raw line break or
\* a backslash ends the parse (no escape is in the alphabet).
ParseChars(s, i, acc) ==
  IF i > Len(s) THEN ParseFail
  ELSE IF s[i] = "\"" THEN ParseOk(Str(acc), i + 1)
  ELSE IF s[i] \in {"\n", "\\"} THEN ParseFail
  ELSE ParseChars(s, i + 1, Append(acc, s[i]))

RECURSIVE ParseDigits(_, _, _)
ParseDigits(s, i, n) ==
  IF i <= Len(s) /\ IsDigit(s[i]) THEN ParseDigits(s, i + 1, n * 10 + DigitVal(s[i]))
  ELSE ParseOk(Num(n), i)

RECURSIVE ParseValue(_, _)
RECURSIVE ParseElems(_, _, _)
RECURSIVE ParseMembers(_, _, _)

ParseElems(s, i, acc) ==
  LET r == ParseValue(s, i)
      j == SkipWs(s, r.pos)
  IN IF ~r.ok \/ j > Len(s) THEN ParseFail
     ELSE IF s[j] = "," THEN ParseElems(s, j + 1, Append(acc, r.val))
     ELSE IF s[j] = "]" THEN ParseOk(Arr(Append(acc, r.val)), j + 1)
     ELSE ParseFail

\* A later member with the same key replaces the earlier one.
ParseMembers(s, i, acc) ==
  LET j == SkipWs(s, i)
      key == ParseChars(s, j + 1, <<>>)
      c == SkipWs(s, key.pos)
      r == ParseValue(s, c + 1)
      e == SkipWs(s, r.pos)
      f == (key.val.v :> r.val) @@ acc
  IN IF j > Len(s) \/ s[j] # "\"" THEN ParseFail
     ELSE IF ~key.ok \/ c > Len(s) \/ s[c] # ":" THEN ParseFail
     ELSE IF ~r.ok \/ e > Len(s) THEN ParseFail
     ELSE IF s[e] = "," THEN ParseMembers(s, e + 1, f)
     ELSE IF s[e] = "}" THEN ParseOk(Obj(f), e + 1)
     ELSE ParseFail

ParseValue(s, i0) ==
  LET i == SkipWs(s, i0)
      j == SkipWs(s, i + 1)
  IN IF i > Len(s) THEN ParseFail
     ELSE CASE s[i] = "[" ->
                 IF j <= Len(s) /\ s[j] = "]" THEN ParseOk(Arr(<<>>), j + 1)
                 ELSE ParseElems(s, i + 1, <<>>)
            [] s[i] = "{" ->
                 IF j <= Len(s) /\ s[j] = "}" THEN ParseOk(EmptyObj, j + 1)
                 ELSE ParseMembers(s, i + 1, <<>>)
            [] s[i] = "\"" -> ParseChars(s, i + 1, <<>>)
            [] s[i] = "0" -> ParseOk(Num(0), i + 1)
            [] IsDigit(s[i]) /\ s[i] # "0" -> ParseDigits(s, i + 1, DigitVal(s[i]))
            [] IsWord(s, i, <<"n", "u", "l", "l">>) -> ParseOk(Null, i + 4)
            [] IsWord(s, i, <<"t", "r", "u", "e">>) -> ParseOk(Bool(TRUE), i + 4)
            [] IsWord(s, i, <<"f", "a", "l", "s", "e">>) -> ParseOk(Bool(FALSE), i + 5)
            [] OTHER -> ParseFail

\* JSON.parse(text): [ok |-> FALSE] stands for the SyntaxError it throws.
JSONparse(s) ==
  LET r == ParseValue(s, 1)
  IN IF r.ok /\ SkipWs(s, r.pos) > Len(s) THEN [ok |-> TRUE, val |-> r.val]
     ELSE [ok |-> FALSE, val |-> Undef]

(***************************************************************************)
(* JSON.stringify, as the upstream writes its reply and as res.json        *)
(* writes a response.                                                      *)
(***************************************************************************)
RECURSIVE NumText(_)
NumText(n) == IF n < 10 THEN <<Digits[n + 1]>> ELSE NumText(n \div 10) \o <<Digits[(n % 10) + 1]>>

\* Properties holding undefined or a function are left out of an object.
Kept(x) == x.k \notin {"undef", "fn"}

RECURSIVE Stringify(_)
RECURSIVE StringifyElems(_, _)
RECURSIVE StringifyMembers(_, _)

StringifyElems(s, i) ==
  IF i > Len(s) THEN <<>>
  ELSE (IF i > 1 THEN <<",">> ELSE <<>>)
       \o (IF Kept(s[i]) THEN Stringify(s[i]) ELSE <<"n", "u", "l", "l">>)
       \o StringifyElems(s, i + 1)

StringifyMembers(f, keys) ==
  IF keys = {} THEN <<>>
  ELSE LET key == CHOOSE x \in keys : TRUE
           rest == keys \ {key}
       IN <<"\"">> \o key \o <<"\"", ":">> \o Stringify(f[key])
          \o (IF rest = {} THEN <<>> ELSE <<",">>) \o StringifyMembers(f, rest)

Stringify(x) ==
  CASE x.k = "null" -> <<"n", "u", "l", "l">>
    [] x.k = "bool" -> IF x.v THEN <<"t", "r", "u", "e">> ELSE <<"f", "a", "l", "s", "e">>
    [] x.k = "num" -> NumText(x.v)
    [] x.k = "str" -> <<"\"">> \o x.v \o <<"\"">>
    [] x.k = "arr" -> <<"[">> \o StringifyElems(x.v, 1) \o <<"]">>
    [] x.k = "obj" -> <<"{">> \o StringifyMembers(x.v, {key \in DOMAIN x.v : Kept(x.v[key])}) \o <<"}">>

RECURSIVE Wire(_)
\* What the caller decodes from res.json(x): x without the properties that
\* JSON.stringify leaves out.
Wire(x) ==
  CASE x.k = "arr" -> Arr([i \in 1..Len(x.v) |-> IF Kept(x.v[i]) THEN Wire(x.v[i]) ELSE Null])
    [] x.k = "obj" -> LET keys == {key \in DOMAIN x.v : Kept(x.v[key])}
                      IN Obj([key \in keys |-> Wire(x.v[key])])
    [] OTHER -> x

(***************************************************************************)
(* Responses and the pieces the five handlers share.                       *)
(***************************************************************************)
\* res.status(status).json(body); res.json(body) sends status 200.
Resp(status, body) == [status |-> status, body |-> Wire(body)]

\* `${x}` in a template literal.
ToText(x) ==
  CASE x.k = "str" -> x.v
    [] x.k = "num" -> NumText(x.v)
    [] x.k = "null" -> Lit("null")
    [] x.k = "undef" -> Lit("undefined")
    [] x.k = "bool" -> IF x.v THEN Lit("true") ELSE Lit("false")
    [] OTHER -> Lit("[object Object]")

OPENROUTER_API_URL == "https://openrouter.ai/api/v1/chat/completions"
MODEL_TO_USE == "openai/gpt-3.5-turbo"

\* checkApiKey: the response it sends when the key is not set.
ConfigError == Resp(500, Obj(K("error") :> Str(Lit("Server configuration error: API Key missing."))))

\* A checkApiKey that lets every request through.
checkApiKeyAlways(key) == TRUE

\* checkApiKey returns the key, or false when it is unset or empty.
checkApiKey(key) == Truthy(key)

\* A handler that calls checkApiKey before it checks its input.
AdmitKeyFirst(invalid, key) ==
  IF ~checkApiKey(key) THEN "nokey"
  ELSE IF invalid THEN "reject"
  ELSE "fetch"

\* The start of every handler: the input check, then checkApiKey, then the
\* outbound call.
Admit(invalid, key) ==
  IF invalid THEN "reject"
  ELSE IF ~checkApiKey(key) THEN "nokey"
  ELSE "fetch"

Message(role, content) == Obj((K("role") :> Str(Lit(role))) @@ (K("content") :> Str(content)))

\* fetch(OPENROUTER_API_URL, {method: 'POST', headers, body})
Call(key, messages, temperature, maxTokens, format) ==
  [url |-> OPENROUTER_API_URL,
   authorization |-> Lit("Bearer ") \o ToText(key),
   model |-> MODEL_TO_USE,
   messages |-> messages,
   temperature |-> temperature,
   max_tokens |-> maxTokens,
   response_format |-> format]

\* response.ok
IsOk(status) == status >= 200 /\ status <= 299

\* The exceptions a handler's catch block can see.
TransportError == Str(Lit("request to https://openrouter.ai/api/v1/chat/completions failed"))
BodyError == Str(Lit("invalid json response body"))
TypeError == Str(Lit("Cannot read properties of undefined"))

\* The catch block: status 500, the route's message, the exception's text.
Caught(message, err) ==
  Resp(500, Obj((K("error") :> Str(Lit(message))) @@ (K("details") :> err)))

\* if (!response.ok): the upstream status, its status text and the message
\* of its body.  A body that is null or undefined throws on .message.
UpstreamError(prefix, failed, status, statusText, errorData) ==
  IF Nullish(errorData) THEN Caught(failed, TypeError)
  ELSE LET message == GetProp(errorData, K("message"))
       IN Resp(status,
               Obj((K("error") :> Str(Lit(prefix) \o statusText))
                   @@ (K("details") :> (IF Truthy(message) THEN message
                                        ELSE Str(Lit("Unknown error from OpenRouter"))))))

\* data && data.choices && data.choices.length > 0 && data.choices[0].message
\*   && data.choices[0].message.content
\* "none": the test is false; "throw": it throws a TypeError; "content": it
\* is true, and v is data.choices[0].message.content.
ContentOf(data) ==
  LET choices == GetProp(data, K("choices"))
      length == GetProp(choices, K("length"))
      first == GetProp(choices, K("0"))
      message == GetProp(first, K("message"))
      content == GetProp(message, K("content"))
      none == [t |-> "none", v |-> Undef]
  IN IF ~Truthy(data) THEN none
     ELSE IF ~Truthy(choices) THEN none
     ELSE IF ~(length.k = "num" /\ length.v > 0) THEN none
     ELSE IF Nullish(first) THEN [t |-> "throw", v |-> Undef]
     ELSE IF ~Truthy(message) THEN none
     ELSE IF ~Truthy(content) THEN none
     ELSE [t |-> "content", v |-> content]

(***************************************************************************)
(* POST /api/search                                                        *)
(***************************************************************************)
\* if (!query)
SearchInvalid(body) == ~Truthy(GetProp(body, K("query")))
SearchRejected == Resp(400, Obj(K("error") :> Str(Lit("Search query is required."))))
SearchFailed == "Failed to fetch search results from OpenRouter."

SearchCall(key, body) ==
  Call(key,
       <<Message("system", Lit("You are an AI research assistant. When asked a query, provide 2-3 concise, fictional search result-like summaries.")),
         Obj((K("role") :> Str(Lit("user"))) @@ (K("content") :> GetProp(body, K("query"))))>>,
       "0.7", 500, "none")

\* new Date().getFullYear(), as text.
Year == Lit("YYYY")

Result(id, title, source, snippet) ==
  Obj((K("id") :> id) @@ (K("title") :> Str(title))
      @@ (K("source") :> Str(source)) @@ (K("snippet") :> Str(snippet)))

\* A placeholder whose title leaves the query out.
ParsePlaceholderNoQuery(query, rawContent) ==
  Result(Num(1),
         Lit("AI Could Not Parse Results (Backend Error)"),
         Lit("OpenRouter API Parsing Issue, ") \o Year,
         Lit("The AI responded, but its output could not be formatted as expected by the backend. Raw response (truncated): ")
           \o Truncate(rawContent) \o Lit("..."))

\* The placeholder of the inner catch block.
ParsePlaceholder(query, rawContent) ==
  Result(Num(1),
         Lit("AI Could Not Parse Results for \"") \o ToText(query) \o Lit("\" (Backend Error)"),
         Lit("OpenRouter API Parsing Issue, ") \o Year,
         Lit("The AI responded, but its output could not be formatted as expected by the backend. Raw response (truncated): ")
           \o Truncate(rawContent) \o Lit("..."))

\* The placeholder of the else branch: the model gave no content.
EmptyPlaceholder(query) ==
  Result(Num(1),
         Lit("No Relevant AI Response for \"") \o ToText(query) \o Lit("\" (Backend Search)"),
         Lit("OpenRouter API, ") \o Year,
         Lit("The AI did not provide any content for your search query via the backend."))

\* {...item}: the own enumerable properties of item.
Spread(item) ==
  CASE item.k = "obj" -> item.v
    [] item.k = "arr" -> [key \in {NumText(i - 1) : i \in 1..Len(item.v)} |->
                            item.v[(CHOOSE i \in 1..Len(item.v) : NumText(i - 1) = key)]]
    [] item.k = "str" -> [key \in {NumText(i - 1) : i \in 1..Len(item.v)} |->
                            Str(<<item.v[(CHOOSE i \in 1..Len(item.v) : NumText(i - 1) = key)]>>)]
    [] OTHER -> <<>>

\* An id that is read from the item and never made up.
ItemIdAsGiven(item, position) == GetProp(item, K("id"))

\* item.id || index + 1, index counted from 0: position counts from 1.
ItemId(item, position) ==
  LET id == GetProp(item, K("id"))
  IN IF Truthy(id) THEN id ELSE Num(position)

\* (item, index) => ({ ...item, id: item.id || index + 1 })
WithId(item, position) == Obj((K("id") :> ItemId(item, position)) @@ Spread(item))

\* JSON.parse(jsonString) then fetchedResults.map(...): [ok |-> FALSE] when
\* either throws (a SyntaxError, no map method, an item that is null).
SearchResults(rawContent) ==
  LET parsed == JSONparse(StripFence(rawContent))
      items == parsed.val.v
  IN IF ~parsed.ok THEN [ok |-> FALSE, val |-> <<>>]
     ELSE IF parsed.val.k # "arr" THEN [ok |-> FALSE, val |-> <<>>]
     ELSE IF \E i \in 1..Len(items) : Nullish(items[i]) THEN [ok |-> FALSE, val |-> <<>>]
     ELSE [ok |-> TRUE, val |-> [i \in 1..Len(items) |-> WithId(items[i], i)]]

\* The handler from `const data = await response.json()` on.  Content that
\* is no string has no replace method, and none of substring in the inner
\* catch block either: that TypeError reaches the outer catch block.
SearchOnData(body, data) ==
  LET query == GetProp(body, K("query"))
      got == ContentOf(data)
      shaped == SearchResults(got.v.v)
      results(list) == Resp(200, Obj(K("results") :> Arr(list)))
  IN CASE got.t = "throw" -> Caught(SearchFailed, TypeError)
       [] got.t = "none" -> results(<<EmptyPlaceholder(query)>>)
       [] got.t = "content" /\ got.v.k # "str" -> Caught(SearchFailed, TypeError)
       [] OTHER -> IF shaped.ok THEN results(shaped.val)
                   ELSE results(<<ParsePlaceholder(query, got.v.v)>>)

(***************************************************************************)
(* POST /api/extract                                                       *)
(***************************************************************************)
ExtractInvalid(body) == ~Truthy(GetProp(body, K("textToExtract")))
ExtractRejected == Resp(400, Obj(K("error") :> Str(Lit("Text to extract is required."))))
ExtractFailed == "Failed to generate outline from OpenRouter."

ExtractCall(key, body) ==
  Call(key,
       <<Message("system", Lit("You are an AI assistant specialized in extracting key information and structuring it into a concise outline.")),
         Message("user", Lit("Create a concise outline from the following text:\n\n")
                           \o ToText(GetProp(body, K("textToExtract"))))>>,
       "0.3", 300, "none")

\* A pass-through that trims the content.
PassThroughTrimmed(field, missing, failed, data) ==
  LET got == ContentOf(data)
  IN CASE got.t = "throw" -> Caught(failed, TypeError)
       [] got.t = "none" -> Resp(500, Obj(K("error") :> Str(Lit(missing))))
       [] OTHER -> Resp(200, Obj(K(field) :> (IF got.v.k = "str" THEN Str(Trim(got.v.v)) ELSE got.v)))

\* The pass-through of extract, insight and chat: the content under `field`,
\* or status 500 when there is none.
PassThrough(field, missing, failed, data) ==
  LET got == ContentOf(data)
  IN CASE got.t = "throw" -> Caught(failed, TypeError)
       [] got.t = "none" -> Resp(500, Obj(K("error") :> Str(Lit(missing))))
       [] OTHER -> Resp(200, Obj(K(field) :> got.v))

ExtractOnData(data) ==
  PassThrough("outline", "AI did not provide outline content.", ExtractFailed, data)

(***************************************************************************)
(* POST /api/insight                                                       *)
(***************************************************************************)
InsightInvalid(body) == ~Truthy(GetProp(body, K("textForInsight")))
InsightRejected == Resp(400, Obj(K("error") :> Str(Lit("Text for insight is required."))))
InsightFailed == "Failed to generate insight from OpenRouter."

InsightCall(key, body) ==
  Call(key,
       <<Message("system", Lit("You are an AI research assistant. Given a piece of text, identify the most significant, non-obvious, and actionable insight.")),
         Message("user", Lit("Generate a key insight from the following text:\n\n")
                           \o ToText(GetProp(body, K("textForInsight"))))>>,
       "0.7", 150, "none")

InsightOnData(data) ==
  PassThrough("insight", "AI did not provide insight content.", InsightFailed, data)

(***************************************************************************)
(* POST /api/populate_form                                                 *)
(***************************************************************************)
\* if (!sourceText || !questions || !Array.isArray(questions) || questions.length === 0)
PopulateInvalid(body) ==
  LET sourceText == GetProp(body, K("sourceText"))
      questions == GetProp(body, K("questions"))
  IN \/ ~Truthy(sourceText)
     \/ ~Truthy(questions)
     \/ questions.k # "arr"
     \/ Len(questions.v) = 0
PopulateRejected ==
  Resp(400, Obj(K("error") :> Str(Lit("Source text and a list of questions are required."))))
PopulateFailed == "Failed to populate form from OpenRouter."

RECURSIVE QuestionLines(_, _)
\* questions.map(q => `- ${q}`).join('\n')
QuestionLines(questions, i) ==
  IF i > Len(questions) THEN <<>>
  ELSE (IF i > 1 THEN <<"\n">> ELSE <<>>) \o Lit("- ") \o ToText(questions[i])
       \o QuestionLines(questions, i + 1)

PopulateCall(key, body) ==
  Call(key,
       <<Message("system", Lit("You are an expert data extractor. Your task is to precisely answer given questions based ONLY on the provided source text.")),
         Message("user", Lit("Based on the following source text, answer each of the following questions concisely. Source Text: ")
                           \o ToText(GetProp(body, K("sourceText")))
                           \o Lit(" Questions to Answer: ")
                           \o QuestionLines(GetProp(body, K("questions")).v, 1)
                           \o Lit(" Example JSON structure: ..."))>>,
       "0.1", 1000, "json_object")

\* populatedFields[q] !== undefined ? populatedFields[q] : ''
Answer(populatedFields, q) ==
  LET given == GetProp(populatedFields, ToText(q))
  IN IF given.k # "undef" THEN given ELSE Str(<<>>)

\* questions.forEach(q => { finalPopulatedFields[q] = ... })
FinalFields(populatedFields, questions) ==
  [key \in {ToText(questions[i]) : i \in 1..Len(questions)} |->
     Answer(populatedFields, Str(key))]

\* A parse failure sent without res.status(500).
ParseFailedAsOk(rawContent) ==
  Resp(200, Obj(K("error") :> Str(Lit("AI response parsing failed. Raw AI output (truncated): ")
                                    \o Truncate(rawContent) \o Lit("..."))))

ParseFailed(rawContent) ==
  Resp(500, Obj(K("error") :> Str(Lit("AI response parsing failed. Raw AI output (truncated): ")
                                    \o Truncate(rawContent) \o Lit("..."))))

\* The handler from `const data = await response.json()` on.  A reply that
\* parses to null throws on populatedFields[q], inside the same try block.
PopulateOnData(body, data) ==
  LET questions == GetProp(body, K("questions")).v
      got == ContentOf(data)
      parsed == JSONparse(StripFence(got.v.v))
  IN CASE got.t = "throw" -> Caught(PopulateFailed, TypeError)
       [] got.t = "none" ->
            Resp(500, Obj(K("error") :> Str(Lit("AI did not provide content for form population."))))
       [] got.t = "content" /\ got.v.k # "str" -> Caught(PopulateFailed, TypeError)
       [] OTHER ->
            IF ~parsed.ok \/ Nullish(parsed.val) THEN ParseFailed(got.v.v)
            ELSE Resp(200, Obj(K("populated_fields") :> Obj(FinalFields(parsed.val, questions))))

(***************************************************************************)
(* POST /api/chat                                                          *)
(***************************************************************************)
\* if (!messages || !Array.isArray(messages) || messages.length === 0)
ChatInvalid(body) ==
  LET messages == GetProp(body, K("messages"))
  IN ~Truthy(messages) \/ messages.k # "arr" \/ Len(messages.v) = 0
ChatRejected == Resp(400, Obj(K("error") :> Str(Lit("Messages array is required for chat."))))
ChatFailed == "Failed to get chat response from OpenRouter."

ChatSystem ==
  Message("system", Lit("You are a helpful and knowledgeable AI research assistant. Provide concise, accurate, and relevant information."))

\* The system message put after the conversation.
ChatMessagesSystemLast(messages) == messages \o <<ChatSystem>>

\* messages: [ {role: "system", ...}, ...messages ]
ChatMessages(messages) == <<ChatSystem>> \o messages

ChatCall(key, body) ==
  Call(key, ChatMessages(GetProp(body, K("messages")).v), "0.7", 500, "none")

ChatOnData(data) ==
  PassThrough("reply", "AI did not provide content for chat response.", ChatFailed, data)

(***************************************************************************)
(* The handler of a route.                                                 *)
(***************************************************************************)
\* app.use(cors()): cors with no options accepts a request of every origin
\* and of none, and hands it on to its route.
cors(header) == TRUE

\* The list of origins and the origin test of the other copy of the server:
\* a request with no Origin header, or with one in the list, passes; any
\* other ends in an error before it reaches a route.
allowedOrigins ==
  {Lit("http://localhost:3000"),
   Lit("https://research-assistant-tims-projects-d59677e7.vercel.app")}
originAllowed(header) == ~Truthy(header) \/ header.v \in allowedOrigins

Routes == {"search", "extract", "insight", "populate_form", "chat"}

Invalid(route, body) ==
  CASE route = "search" -> SearchInvalid(body)
    [] route = "extract" -> ExtractInvalid(body)
    [] route = "insight" -> InsightInvalid(body)
    [] route = "populate_form" -> PopulateInvalid(body)
    [] route = "chat" -> ChatInvalid(body)

Rejected(route) ==
  CASE route = "search" -> SearchRejected
    [] route = "extract" -> ExtractRejected
    [] route = "insight" -> InsightRejected
    [] route = "populate_form" -> PopulateRejected
    [] route = "chat" -> ChatRejected

OutboundCall(route, key, body) ==
  CASE route = "search" -> SearchCall(key, body)
    [] route = "extract" -> ExtractCall(key, body)
    [] route = "insight" -> InsightCall(key, body)
    [] route = "populate_form" -> PopulateCall(key, body)
    [] route = "chat" -> ChatCall(key, body)

Failed(route) ==
  CASE route = "search" -> SearchFailed
    [] route = "extract" -> ExtractFailed
    [] route = "insight" -> InsightFailed
    [] route = "populate_form" -> PopulateFailed
    [] route = "chat" -> ChatFailed

ErrorPrefix(route) ==
  CASE route = "search" -> "OpenRouter API error: "
    [] route = "extract" -> "OpenRouter API error during extraction: "
    [] route = "insight" -> "OpenRouter API error during insight generation: "
    [] route = "populate_form" -> "OpenRouter API error during form population: "
    [] route = "chat" -> "OpenRouter API error during chat: "

OnData(route, body, data) ==
  CASE route = "search" -> SearchOnData(body, data)
    [] route = "extract" -> ExtractOnData(data)
    [] route = "insight" -> InsightOnData(data)
    [] route = "populate_form" -> PopulateOnData(body, data)
    [] route = "chat" -> ChatOnData(data)

(***************************************************************************)
(* The inputs: request bodies, the environment's key, upstream answers.    *)
(***************************************************************************)
\* A property that is left out when its value is undefined.
Opt(key, x) == IF x.k = "undef" THEN <<>> ELSE key :> x

SeqsUpTo(S, n) == UNION {[1..m -> S] : m \in 0..n}

\* process.env.OPENROUTER_API_KEY: unset, empty, set.
Keys == {Undef, Str(<<>>), Str(<<"s", "k">>)}

\* A required text field: absent, null, empty, or a text.
TextInputs == {Undef, Null, Str(<<>>), Str(<<"q">>), Str(<<"a", " ", "b">>)}

SearchBodies == {Obj(Opt(K("query"), x)) : x \in TextInputs}
ExtractBodies == {Obj(Opt(K("textToExtract"), x)) : x \in TextInputs}
InsightBodies == {Obj(Opt(K("textForInsight"), x)) : x \in TextInputs}

Questions == {Str(<<"A">>), Str(<<"B">>), Str(K("constructor"))}
QuestionInputs ==
  {Undef, Str(<<"A">>)} \cup {Arr(list) : list \in SeqsUpTo(Questions, MaxQuestions)}
PopulateBodies ==
  {Obj(Opt(K("sourceText"), text) @@ Opt(K("questions"), list)) :
     text \in {Undef, Str(<<>>), Str(<<"t">>)}, list \in QuestionInputs}

Turns == {Message("user", <<"h", "i">>), Message("assistant", <<"y", "o">>)}
MessageInputs ==
  {Undef, Str(<<"h", "i">>)} \cup {Arr(list) : list \in SeqsUpTo(Turns, MaxMessages)}
ChatBodies == {Obj(Opt(K("messages"), list)) : list \in MessageInputs}

\* The Origin header of a request: none, the local frontend, another site.
Origins == {Undef, Str(Lit("http://localhost:3000")), Str(Lit("https://other.example"))}

\* response.status and response.statusText of the upstream's answer.
Statuses ==
  {[status |-> 200, statusText |-> Lit("OK")],
   [status |-> 401, statusText |-> Lit("Unauthorized")],
   [status |-> 429, statusText |-> Lit("Too Many Requests")],
   [status |-> 502, statusText |-> Lit("Bad Gateway")]}

\* The JSON body of an error answer: a top-level message, the upstream's
\* own {error: {message}} shape, no message at all.
ErrorBodies ==
  {Obj(K("message") :> Str(Lit("Rate limit exceeded"))),
   Obj(K("error") :> Obj(K("message") :> Str(Lit("No auth credentials found")))),
   Obj(K("message") :> Str(<<>>)),
   EmptyObj}

\* What the model may write: JSON values, bare or fenced, and text that is
\* no JSON.
Items ==
  {Obj(Opt(K("id"), id) @@ (K("title") :> Str(<<"x">>))) : id \in {Undef, Num(7), Num(0)}}
    \cup {Null, Num(5)}
ArrayValues == {Arr(list) : list \in SeqsUpTo(Items, MaxItems)}
Answers == {Undef, Null, Str(<<>>), Str(<<"x">>)}
ObjectValues == {Obj(Opt(K("A"), a) @@ Opt(K("C"), c)) : a \in Answers, c \in Answers}
JsonValues == ArrayValues \cup ObjectValues \cup {Null, Num(5), Str(<<"s">>)}

Fenced(text) == FenceJson \o <<"\n">> \o text \o <<"\n">> \o Fence
BareFenced(text) == Fence \o <<"\n">> \o text \o <<"\n">> \o Fence
Junk(n) == [i \in 1..n |-> "x"]
JunkLens == {1, TruncLen - 1, TruncLen} \cup {TruncLen + e : e \in 1..MaxExtra}

Contents ==
  UNION {{Stringify(x), Fenced(Stringify(x)), BareFenced(Stringify(x))} : x \in JsonValues}
    \cup {Junk(n) : n \in JunkLens}
    \cup {<<"[", "{">>, <<"S", "u", "r", "e", ":", " ", "[", "]">>, <<" ">>}

Completion(message) == Obj(K("choices") :> Arr(<<Obj(Opt(K("message"), message))>>))

\* The JSON body of a success answer: the chat-completion shape, with any
\* of its fields absent, null or empty.
DataBodies ==
  {Null, EmptyObj, Obj(K("choices") :> Null), Obj(K("choices") :> Arr(<<>>)),
   Completion(Undef), Completion(Null), Completion(EmptyObj),
   Completion(Obj(K("content") :> Null)), Completion(Obj(K("content") :> Str(<<>>)))}
    \cup {Completion(Obj(K("content") :> Str(text))) : text \in Contents}

(***************************************************************************)
(* State.                                                                  *)
(***************************************************************************)
\* The requests in flight.
Reqs == {"r1"}

VARIABLES
  apiKey,  \* process.env.OPENROUTER_API_KEY
  origin,  \* the Origin header of each request, undefined when it has none
  pc,      \* where each request's handler stands: idle, fetch, json, done
  req,     \* the request: its route and its JSON body
  calls,   \* the outbound calls made for each request
  http,    \* the upstream's answer to the call: status, statusText
  reply,   \* how the call ended: the body decoded, or the exception
  sent     \* the responses sent for each request

vars == <<apiKey, origin, pc, req, calls, http, reply, sent>>

NoRequest == [route |-> "none", body |-> Undef]
NoAnswer == [status |-> 0, statusText |-> <<>>]
NoReply == [t |-> "none", data |-> Undef]

Init ==
  /\ apiKey \in Keys
  /\ origin = [r \in Reqs |-> Undef]
  /\ pc = [r \in Reqs |-> "idle"]
  /\ req = [r \in Reqs |-> NoRequest]
  /\ calls = [r \in Reqs |-> <<>>]
  /\ http = [r \in Reqs |-> NoAnswer]
  /\ reply = [r \in Reqs |-> NoReply]
  /\ sent = [r \in Reqs |-> <<>>]

\* A handler that sends `response` and then, for want of a return, sends
\* once more.
FinishTwice(r, response) ==
  /\ sent' = [sent EXCEPT ![r] = Append(Append(@, response), response)]
  /\ pc' = [pc EXCEPT ![r] = "done"]

\* A handler ends by sending `response`.
Finish(r, response) ==
  /\ sent' = [sent EXCEPT ![r] = Append(@, response)]
  /\ pc' = [pc EXCEPT ![r] = "done"]

\* A request from its arrival to its handler's first await: the cors
\* middleware, then the input check, checkApiKey, fetch.
Begin(r, route, body) ==
  /\ \E header \in Origins :
       /\ cors(header)
       /\ origin' = [origin EXCEPT ![r] = header]
  /\ req' = [req EXCEPT ![r] = [route |-> route, body |-> body]]
  /\ LET step == Admit(Invalid(route, body), apiKey)
     IN CASE step = "reject" -> Finish(r, Rejected(route)) /\ UNCHANGED calls
          [] step = "nokey" -> Finish(r, ConfigError) /\ UNCHANGED calls
          [] OTHER -> /\ calls' = [calls EXCEPT ![r] = Append(@, OutboundCall(route, apiKey, body))]
                      /\ pc' = [pc EXCEPT ![r] = "fetch"]
                      /\ UNCHANGED sent
  /\ UNCHANGED <<apiKey, http, reply>>

SearchRequest(r) ==
  /\ pc[r] = "idle"
  /\ \E body \in SearchBodies : Begin(r, "search", body)
ExtractRequest(r) ==
  /\ pc[r] = "idle"
  /\ \E body \in ExtractBodies : Begin(r, "extract", body)
InsightRequest(r) ==
  /\ pc[r] = "idle"
  /\ \E body \in InsightBodies : Begin(r, "insight", body)
PopulateFormRequest(r) ==
  /\ pc[r] = "idle"
  /\ \E body \in PopulateBodies : Begin(r, "populate_form", body)
ChatRequest(r) ==
  /\ pc[r] = "idle"
  /\ \E body \in ChatBodies : Begin(r, "chat", body)

\* await fetch(...) resolves with the upstream's answer.
FetchResolves(r) ==
  /\ pc[r] = "fetch"
  /\ \E answer \in Statuses : http' = [http EXCEPT ![r] = answer]
  /\ pc' = [pc EXCEPT ![r] = "json"]
  /\ UNCHANGED <<apiKey, origin, req, calls, reply, sent>>

\* A handler that answers a rejected fetch by calling once more.
FetchRejectsRetry(r) ==
  /\ pc[r] = "fetch"
  /\ Len(calls[r]) < 2
  /\ calls' = [calls EXCEPT ![r] = Append(@, @[1])]
  /\ UNCHANGED <<apiKey, origin, pc, req, http, reply, sent>>

\* await fetch(...) rejects: the catch block.
FetchRejects(r) ==
  /\ pc[r] = "fetch"
  /\ reply' = [reply EXCEPT ![r] = [t |-> "rejected", data |-> Undef]]
  /\ Finish(r, Caught(Failed(req[r].route), TransportError))
  /\ UNCHANGED <<apiKey, origin, req, calls, http>>

\* A search handler that takes a body it cannot decode for a reply without
\* content, and answers with the placeholder.
BodyUndecodableDegrades(r) ==
  /\ pc[r] = "json"
  /\ reply' = [reply EXCEPT ![r] = [t |-> "undecodable", data |-> Undef]]
  /\ Finish(r, IF req[r].route = "search"
               THEN OnData("search", req[r].body, EmptyObj)
               ELSE Caught(Failed(req[r].route), BodyError))
  /\ UNCHANGED <<apiKey, origin, req, calls, http>>

\* await response.json() rejects, whatever the status: the catch block.
BodyUndecodable(r) ==
  /\ pc[r] = "json"
  /\ reply' = [reply EXCEPT ![r] = [t |-> "undecodable", data |-> Undef]]
  /\ Finish(r, Caught(Failed(req[r].route), BodyError))
  /\ UNCHANGED <<apiKey, origin, req, calls, http>>

\* !response.ok and the error body decodes.
ErrorDecoded(r) ==
  /\ pc[r] = "json"
  /\ ~IsOk(http[r].status)
  /\ \E errorData \in ErrorBodies :
       /\ reply' = [reply EXCEPT ![r] = [t |-> "data", data |-> errorData]]
       /\ Finish(r, UpstreamError(ErrorPrefix(req[r].route), Failed(req[r].route),
                                  http[r].status, http[r].statusText, errorData))
  /\ UNCHANGED <<apiKey, origin, req, calls, http>>

\* response.ok and the body decodes: the route shapes its response.
DataDecoded(r) ==
  /\ pc[r] = "json"
  /\ IsOk(http[r].status)
  /\ \E data \in DataBodies :
       /\ reply' = [reply EXCEPT ![r] = [t |-> "data", data |-> data]]
       /\ Finish(r, OnData(req[r].route, req[r].body, data))
  /\ UNCHANGED <<apiKey, origin, req, calls, http>>

Next ==
  \E r \in Reqs :
    \/ SearchRequest(r)
    \/ ExtractRequest(r)
    \/ InsightRequest(r)
    \/ PopulateFormRequest(r)
    \/ ChatRequest(r)
    \/ FetchResolves(r)
    \/ FetchRejects(r)
    \/ BodyUndecodable(r)
    \/ ErrorDecoded(r)
    \/ DataDecoded(r)

Spec == Init /\ [][Next]_vars

\* The server when every outbound call completes or throws, and every read
\* of an answer's body ends: the promise a handler awaits is settled, and
\* the handler runs on.
FairSpec ==
  /\ Spec
  /\ \A r \in Reqs :
       /\ WF_vars(FetchResolves(r) \/ FetchRejects(r))
       /\ WF_vars(BodyUndecodable(r) \/ ErrorDecoded(r) \/ DataDecoded(r))

(***************************************************************************)
(* Several requests in flight at once. The handlers are async functions:   *)
(* each runs to its next await, and the steps of different requests        *)
(* interleave in any order. Each request carries one of a few inputs.      *)
(***************************************************************************)
Flight == {"r1", "r2"}

FlightInputs ==
  {[route |-> "search", body |-> Obj(K("query") :> Str(<<"q">>))],
   [route |-> "search", body |-> Obj(K("query") :> Str(<<"a", " ", "b">>))],
   [route |-> "search", body |-> EmptyObj],
   [route |-> "extract", body |-> Obj(K("textToExtract") :> Str(<<"q">>))],
   [route |-> "insight", body |-> Obj(K("textForInsight") :> Str(<<"q">>))],
   [route |-> "populate_form",
    body |-> Obj((K("sourceText") :> Str(<<"t">>)) @@ (K("questions") :> Arr(<<Str(<<"A">>)>>)))],
   [route |-> "chat", body |-> Obj(K("messages") :> Arr(<<Message("user", <<"h", "i">>)>>))]}

FlightData ==
  {EmptyObj,
   Completion(Obj(K("content") :> Str(Junk(1)))),
   Completion(Obj(K("content") :> Str(Stringify(Arr(<<Obj(K("title") :> Str(<<"x">>))>>))))),
   Completion(Obj(K("content") :> Str(Stringify(Obj(K("A") :> Str(<<"x">>))))))}

FlightInit ==
  /\ apiKey \in Keys
  /\ origin = [r \in Flight |-> Undef]
  /\ pc = [r \in Flight |-> "idle"]
  /\ req = [r \in Flight |-> NoRequest]
  /\ calls = [r \in Flight |-> <<>>]
  /\ http = [r \in Flight |-> NoAnswer]
  /\ reply = [r \in Flight |-> NoReply]
  /\ sent = [r \in Flight |-> <<>>]

\* A request arrives at its route.
Arrives(r) ==
  /\ pc[r] = "idle"
  /\ \E input \in FlightInputs : Begin(r, input.route, input.body)

\* A handler that shapes its response from the request body that module
\* state holds: that of any request of the same route.
DecodedShared(r) ==
  /\ pc[r] = "json"
  /\ IsOk(http[r].status)
  /\ \E data \in FlightData, q \in Flight :
       /\ req[q].route = req[r].route
       /\ reply' = [reply EXCEPT ![r] = [t |-> "data", data |-> data]]
       /\ Finish(r, OnData(req[r].route, req[q].body, data))
  /\ UNCHANGED <<apiKey, origin, req, calls, http>>

\* response.ok and the body decodes: the route shapes its response.
Decoded(r) ==
  /\ pc[r] = "json"
  /\ IsOk(http[r].status)
  /\ \E data \in FlightData :
       /\ reply' = [reply EXCEPT ![r] = [t |-> "data", data |-> data]]
       /\ Finish(r, OnData(req[r].route, req[r].body, data))
  /\ UNCHANGED <<apiKey, origin, req, calls, http>>

FlightNext ==
  \E r \in Flight :
    \/ Arrives(r)
    \/ FetchResolves(r)
    \/ FetchRejects(r)
    \/ BodyUndecodable(r)
    \/ ErrorDecoded(r)
    \/ Decoded(r)

FlightSpec == FlightInit /\ [][FlightNext]_vars

(***************************************************************************)
(* What the properties speak about.                                        *)
(***************************************************************************)
Done(r) == pc[r] = "done" /\ Len(sent[r]) = 1
Response(r) == sent[r][1]
Has(x, name) == x.k = "obj" /\ K(name) \in DOMAIN x.v
Field(x, name) == x.v[K(name)]
NonEmptyText(x) == x.k = "str" /\ Len(x.v) > 0
NonEmptyArray(x) == x.k = "arr" /\ Len(x.v) > 0

\* The request lacks its route's required input: the text field is absent,
\* null or empty, the list field is no array or an empty one.
LacksText(body, name) == ~Has(body, name) \/ ~NonEmptyText(Field(body, name))
LacksArray(body, name) == ~Has(body, name) \/ ~NonEmptyArray(Field(body, name))
MissingInput(request) ==
  CASE request.route = "search" -> LacksText(request.body, "query")
    [] request.route = "extract" -> LacksText(request.body, "textToExtract")
    [] request.route = "insight" -> LacksText(request.body, "textForInsight")
    [] request.route = "populate_form" ->
         LacksText(request.body, "sourceText") \/ LacksArray(request.body, "questions")
    [] request.route = "chat" -> LacksArray(request.body, "messages")
    [] OTHER -> FALSE

KeyAbsent == apiKey.k = "undef" \/ (apiKey.k = "str" /\ apiKey.v = <<>>)

\* C1: on each of the five routes a request whose required input is missing
\* or empty is answered with status 400 and a non-empty error message, and
\* no outbound call is made for it.
C1_MissingInputIs400 ==
  \A r \in Reqs :
    (pc[r] # "idle" /\ MissingInput(req[r])) =>
      /\ Done(r)
      /\ Response(r).status = 400
      /\ Has(Response(r).body, "error")
      /\ NonEmptyText(Field(Response(r).body, "error"))
      /\ calls[r] = <<>>

\* C1 happens: a form request with its source text but an empty list of
\* questions, on a server that has its key, was answered 400.
C1_Witness ==
  \E r \in Reqs :
    /\ Done(r)
    /\ ~KeyAbsent
    /\ req[r].route = "populate_form"
    /\ ~LacksText(req[r].body, "sourceText")
    /\ Has(req[r].body, "questions")
    /\ Field(req[r].body, "questions") = Arr(<<>>)
    /\ Response(r).status = 400

\* C2 as stated: with the key absent every request is answered with status
\* 500 and the configuration-error message, and no outbound call is made.
C2_Original ==
  \A r \in Reqs :
    (pc[r] # "idle" /\ KeyAbsent) =>
      /\ Done(r)
      /\ Response(r) = ConfigError
      /\ calls[r] = <<>>

\* C2 amended: with the key absent no outbound call is made; a request that
\* carries its route's required input is answered with status 500 and the
\* configuration-error message, and one that lacks it with status 400.
C2_AbsentKeyIs500 ==
  \A r \in Reqs :
    (pc[r] # "idle" /\ KeyAbsent) =>
      /\ Done(r)
      /\ calls[r] = <<>>
      /\ IF MissingInput(req[r]) THEN Response(r).status = 400
         ELSE /\ Response(r).status = 500
              /\ Field(Response(r).body, "error")
                   = Str(Lit("Server configuration error: API Key missing."))

\* C2 happens: a chat request with messages, on a server without its key,
\* was answered 500.
C2_Witness ==
  \E r \in Reqs :
    /\ Done(r)
    /\ KeyAbsent
    /\ req[r].route = "chat"
    /\ ~MissingInput(req[r])
    /\ Response(r).status = 500

\* The error message of an upstream error body: its top-level message, or
\* the message of its error object.
UpstreamMessage(errorData) ==
  IF Has(errorData, "message") THEN Field(errorData, "message")
  ELSE IF Has(errorData, "error") /\ Has(Field(errorData, "error"), "message")
       THEN Field(Field(errorData, "error"), "message")
  ELSE Undef

\* C3 as stated: whenever the upstream answers with a non-success status,
\* the caller receives that status, and the upstream's error message in the
\* details field.
C3_Original ==
  \A r \in Reqs :
    (Done(r) /\ http[r] # NoAnswer /\ ~IsOk(http[r].status)) =>
      /\ Response(r).status = http[r].status
      /\ (reply[r].t = "data" /\ NonEmptyText(UpstreamMessage(reply[r].data))) =>
           /\ Has(Response(r).body, "details")
           /\ Field(Response(r).body, "details") = UpstreamMessage(reply[r].data)

\* The text of the model's reply in a decoded success body, <<>> when the
\* body holds none.
ReplyText(data) ==
  IF /\ Has(data, "choices")
     /\ NonEmptyArray(Field(data, "choices"))
     /\ Has(Field(data, "choices").v[1], "message")
     /\ Has(Field(Field(data, "choices").v[1], "message"), "content")
     /\ NonEmptyText(Field(Field(Field(data, "choices").v[1], "message"), "content"))
  THEN Field(Field(Field(data, "choices").v[1], "message"), "content").v
  ELSE <<>>

\* The upstream call of r succeeded: a success status and a body that decoded.
Succeeded(r) == Done(r) /\ IsOk(http[r].status) /\ reply[r].t = "data"
Raw(r) == ReplyText(reply[r].data)
\* The value the reply encodes, once its code fence is stripped.
Parsed(r) == JSONparse(StripFence(Raw(r)))

Contains(text, part) ==
  \E i \in 1..(Len(text) - Len(part) + 1) : SubSeq(text, i, i + Len(part) - 1) = part

\* C4 as stated: in a success response of populate_form the keys of
\* populated_fields are exactly the requested questions, each mapped to the
\* model's answer for that key, or to the empty string when it gave none.
C4_Original ==
  \A r \in Reqs :
    (Succeeded(r) /\ req[r].route = "populate_form"
       /\ Parsed(r).ok /\ Response(r).status = 200) =>
      LET fields == Field(Response(r).body, "populated_fields")
          questions == Field(req[r].body, "questions").v
          asked == {questions[i].v : i \in 1..Len(questions)}
      IN /\ fields.k = "obj"
         /\ DOMAIN fields.v = asked
         /\ \A q \in asked :
              fields.v[q] = IF Parsed(r).val.k = "obj" /\ q \in DOMAIN Parsed(r).val.v
                            THEN Parsed(r).val.v[q]
                            ELSE Str(<<>>)

\* C5 as stated, for a reply that is an array of objects: the results are
\* the items in order, an item without id gets its position counted from 1,
\* an item with an id keeps it.
C5_Original ==
  \A r \in Reqs :
    (Succeeded(r) /\ req[r].route = "search" /\ Parsed(r).ok
       /\ Parsed(r).val.k = "arr"
       /\ \A i \in 1..Len(Parsed(r).val.v) : Parsed(r).val.v[i].k = "obj") =>
      LET items == Parsed(r).val.v
          results == Field(Response(r).body, "results")
      IN /\ Response(r).status = 200
         /\ results.k = "arr"
         /\ Len(results.v) = Len(items)
         /\ \A i \in 1..Len(items) :
              /\ \A key \in DOMAIN items[i].v \ {K("id")} :
                   key \in DOMAIN results.v[i].v /\ results.v[i].v[key] = items[i].v[key]
              /\ Field(results.v[i], "id")
                   = IF Has(items[i], "id") THEN Field(items[i], "id") ELSE Num(i)

\* The single placeholder result: one element, with id 1 and the title,
\* source and snippet of one of the two placeholders of the code.
IsPlaceholder(response) ==
  /\ response.status = 200
  /\ Has(response.body, "results")
  /\ Field(response.body, "results").k = "arr"
  /\ Len(Field(response.body, "results").v) = 1
  /\ LET only == Field(response.body, "results").v[1]
     IN /\ DOMAIN only.v = {K("id"), K("title"), K("source"), K("snippet")}
        /\ Field(only, "id") = Num(1)
        /\ Field(only, "title").v[1] \in {"AI Could Not Parse Results for \"",
                                         "No Relevant AI Response for \""}

ShapingFailure(r) ==
  \/ Raw(r) = <<>>
  \/ req[r].route \in {"search", "populate_form"} /\ ~Parsed(r).ok

C8_ChatOutbound ==
  \A r \in Reqs :
    (req[r].route = "chat" /\ ~MissingInput(req[r]) /\ ~KeyAbsent) =>
      LET given == Field(req[r].body, "messages").v
          out == calls[r][1].messages
      IN /\ Len(calls[r]) = 1
         /\ Len(out) = Len(given) + 1
         /\ out[1] = ChatSystem
         /\ Field(out[1], "role") = Str(Lit("system"))
         /\ \A i \in 1..Len(given) : out[i + 1] = given[i]

\* C8 happens: a chat request with two different turns was sent on.
C8_Witness ==
  \E r \in Reqs :
    /\ req[r].route = "chat"
    /\ Len(calls[r]) = 1
    /\ Len(calls[r][1].messages) = 3
    /\ calls[r][1].messages[2] # calls[r][1].messages[3]

PassField(route) ==
  CASE route = "extract" -> "outline"
    [] route = "insight" -> "insight"
    [] route = "chat" -> "reply"

\* C9: extract, insight and chat: when the upstream call succeeded and the
\* reply has content, the string returned is that content, unchanged.
C9_PassThrough ==
  \A r \in Reqs :
    (Succeeded(r) /\ req[r].route \in {"extract", "insight", "chat"} /\ Raw(r) # <<>>) =>
      /\ Response(r).status = 200
      /\ DOMAIN Response(r).body.v = {K(PassField(req[r].route))}
      /\ Field(Response(r).body, PassField(req[r].route)) = Str(Raw(r))

\* C9 happens: an extract request got back a fenced reply, fence and all.
C9_Witness ==
  \E r \in Reqs :
    /\ Succeeded(r)
    /\ req[r].route = "extract"
    /\ Len(Raw(r)) > 7
    /\ SubSeq(Raw(r), 1, 7) = FenceJson
    /\ Response(r).status = 200

\* The text in which a parse failure echoes the reply, <<>> when the
\* response is none of the two that do: the snippet of the search
\* placeholder, the error of populate_form.
EchoText(r) ==
  LET body == Response(r).body
      snippet == Field(Field(body, "results").v[1], "snippet").v
  IN IF /\ req[r].route = "search"
        /\ IsPlaceholder(Response(r))
        /\ snippet[Len(snippet)] = "..."
     THEN snippet
     ELSE IF /\ req[r].route = "populate_form"
             /\ Response(r).status = 500
             /\ Has(body, "error")
             /\ Field(body, "error").v[1] = "AI response parsing failed. Raw AI output (truncated): "
          THEN Field(body, "error").v
          ELSE <<>>

\* The echoed part: between the leading message and the closing "...".
Echo(r) == SubSeq(EchoText(r), 2, Len(EchoText(r)) - 1)

\* C10: where a parse failure echoes the reply, the echoed part is the
\* prefix of the reply of length min(length of the reply, 200).
C10_EchoIsPrefix ==
  \A r \in Reqs :
    (Succeeded(r) /\ EchoText(r) # <<>>) =>
      /\ Len(Echo(r)) <= 200
      /\ Len(Echo(r)) <= Len(Raw(r))
      /\ Echo(r) = SubSeq(Raw(r), 1, Len(Echo(r)))
      /\ Len(Raw(r)) <= 200 => Echo(r) = Raw(r)
      /\ Len(Raw(r)) > 200 => Len(Echo(r)) = 200

\* C10 happens: a reply longer than 200 characters was echoed by
\* populate_form.
C10_Witness ==
  \E r \in Reqs :
    /\ Succeeded(r)
    /\ req[r].route = "populate_form"
    /\ EchoText(r) # <<>>
    /\ Len(Raw(r)) > 200
    /\ Len(Echo(r)) = 200

\* The request ended in a failure: an answer of status 400 or more.
FailedRequest(r) == Done(r) /\ Response(r).status >= 400

\* C11: every request causes at most one outbound call on every path: no
\* step makes a second call for a request, and once a call was made for a
\* request, whatever follows (an upstream error status, a transport error,
\* a shaping failure) makes no other.
C11_AtMostOneCall ==
  [][\A r \in Reqs :
       /\ Len(calls'[r]) <= 1
       /\ calls[r] # <<>> => calls'[r] = calls[r]]_vars

\* C11 happens: a request whose one call was answered with an upstream
\* error status ended in a failure.
C11_Witness ==
  \E r \in Reqs :
    /\ FailedRequest(r)
    /\ ~IsOk(http[r].status)
    /\ reply[r].t = "data"
    /\ Len(calls[r]) = 1

\* The response that a request's own input, the credential and its own
\* upstream reply determine.
Outcome(request, key, answer, result) ==
  LET step == Admit(Invalid(request.route, request.body), key)
  IN CASE step = "reject" -> Rejected(request.route)
       [] step = "nokey" -> ConfigError
       [] result.t = "rejected" -> Caught(Failed(request.route), TransportError)
       [] result.t = "undecodable" -> Caught(Failed(request.route), BodyError)
       [] ~IsOk(answer.status) ->
            UpstreamError(ErrorPrefix(request.route), Failed(request.route),
                          answer.status, answer.statusText, result.data)
       [] OTHER -> OnData(request.route, request.body, result.data)

\* What the handler of q holds is left as it is.
Untouched(q) ==
  /\ origin'[q] = origin[q]
  /\ pc'[q] = pc[q]
  /\ req'[q] = req[q]
  /\ calls'[q] = calls[q]
  /\ http'[q] = http[q]
  /\ reply'[q] = reply[q]
  /\ sent'[q] = sent[q]

\* C12: with several requests in flight, under every interleaving, the
\* response of each request is the one its own input, the credential and
\* its own upstream reply determine; every step is a step of one request
\* and leaves the credential and what the other requests hold untouched;
\* and once a request is answered nothing that happens to another request,
\* a failure included, changes its answer.
C12_Independent ==
  /\ [](\A r \in Flight :
          pc[r] = "done" => sent[r] = <<Outcome(req[r], apiKey, http[r], reply[r])>>)
  /\ [][/\ apiKey' = apiKey
        /\ \E r \in Flight : \A q \in Flight \ {r} : Untouched(q)
        /\ \A q \in Flight : pc[q] = "done" => Untouched(q)]_vars

\* C12 happens: two searches with different queries were in flight; one
\* call was rejected and that request failed, the other was answered with
\* its own placeholder.
C12_Witness ==
  /\ Done("r1") /\ Done("r2")
  /\ req["r1"].route = "search" /\ req["r2"].route = "search"
  /\ req["r1"].body # req["r2"].body
  /\ reply["r1"].t = "rejected" /\ Response("r1").status = 500
  /\ reply["r2"].t = "data" /\ IsPlaceholder(Response("r2"))

\* C13 as stated: a request that carries an Origin header reaches a route
\* handler only when that origin is in the allow-list; a request of any
\* other origin never reaches one.
C13_Original ==
  \A r \in Reqs :
    (pc[r] # "idle" /\ Truthy(origin[r])) => originAllowed(origin[r])

\* The reply is wrapped in a code fence: an opening fence line, with the
\* json tag or without, and a closing fence line.
OpensTagged(text) == Len(text) >= 8 /\ SubSeq(text, 1, 8) = FenceJson \o <<"\n">>
OpensBare(text) == Len(text) >= 4 /\ SubSeq(text, 1, 4) = Fence \o <<"\n">>
Closes(text) == Len(text) >= 4 /\ SubSeq(text, Len(text) - 3, Len(text)) = <<"\n">> \o Fence
IsFenced(text) == (OpensTagged(text) \/ OpensBare(text)) /\ Closes(text)
\* What the fence wraps.
Inner(text) == SubSeq(text, IF OpensTagged(text) THEN 9 ELSE 5, Len(text) - 4)

\* The response to the reply `text` on the route of r.
ResponseTo(r, text) ==
  OnData(req[r].route, req[r].body, Completion(Obj(K("content") :> Str(text))))
\* The route takes the reply: it answers 200, and not with the placeholder.
Taken(response) == response.status = 200 /\ ~IsPlaceholder(response)

\* C14 as stated: search and populate_form, a reply that is valid JSON
\* wrapped in a code fence, with the json tag or without, gets the response
\* that the same JSON without the fence gets. Stated for the JSON that the
\* route takes when it comes without a fence.
C14_Original ==
  \A r \in Reqs :
    (/\ Succeeded(r)
     /\ req[r].route \in {"search", "populate_form"}
     /\ IsFenced(Raw(r))
     /\ JSONparse(Inner(Raw(r))).ok
     /\ Taken(ResponseTo(r, Inner(Raw(r))))) =>
      Response(r) = ResponseTo(r, Inner(Raw(r)))

\* C15: on every route and every path, provided the outbound call
\* completes or throws, the handler sends exactly one response: a request
\* that is not answered yet has none, an answered one has one, a response
\* sent is never followed by another, and every request that reached its
\* handler is answered in the end.
C15_ExactlyOneResponse ==
  /\ [](\A r \in Reqs : Len(sent[r]) = IF pc[r] = "done" THEN 1 ELSE 0)
  /\ [][\A r \in Reqs : sent[r] # <<>> => sent'[r] = sent[r]]_vars
  /\ \A r \in Reqs : (pc[r] # "idle") ~> (pc[r] = "done" /\ Len(sent[r]) = 1)

\* C15 happens: a populate_form reply that parses to null throws inside
\* the inner try block, and the request was answered once, with status 500.
C15_Witness ==
  \E r \in Reqs :
    /\ pc[r] = "done"
    /\ req[r].route = "populate_form"
    /\ reply[r].t = "data"
    /\ IsOk(http[r].status)
    /\ Parsed(r).ok /\ Parsed(r).val = Null
    /\ Len(sent[r]) = 1
    /\ sent[r][1].status = 500

\* The message with which each route answers an exception.
OwnMessage(route) ==
  CASE route = "search" -> "Failed to fetch search results from OpenRouter."
    [] route = "extract" -> "Failed to generate outline from OpenRouter."
    [] route = "insight" -> "Failed to generate insight from OpenRouter."
    [] route = "populate_form" -> "Failed to populate form from OpenRouter."
    [] route = "chat" -> "Failed to get chat response from OpenRouter."

\* The outbound call of r itself failed: fetch threw, or the body of the
\* answer, of a success or of an error status, could not be decoded.
CallFailed(r) == pc[r] = "done" /\ reply[r].t \in {"rejected", "undecodable"}

\* C16: when the outbound call itself fails, the request is answered with
\* status 500, the route's own message and the text of the exception as
\* details, on all five routes; search gives no placeholder here.
C16_CallFailureIs500 ==
  \A r \in Reqs :
    CallFailed(r) =>
      /\ Len(sent[r]) = 1
      /\ Response(r).status = 500
      /\ DOMAIN Response(r).body.v = {K("error"), K("details")}
      /\ Field(Response(r).body, "error") = Str(<<OwnMessage(req[r].route)>>)
      /\ Field(Response(r).body, "details")
           = IF reply[r].t = "rejected" THEN TransportError ELSE BodyError
      /\ NonEmptyText(Field(Response(r).body, "details"))

\* C16 happens: the upstream answered a search with status 200 and a body
\* that is no JSON, and the search was answered 500.
C16_Witness ==
  \E r \in Reqs :
    /\ CallFailed(r)
    /\ req[r].route = "search"
    /\ reply[r].t = "undecodable"
    /\ IsOk(http[r].status)
    /\ Response(r).status = 500

\* A success response of the search route.
SearchSuccess(r) == Done(r) /\ req[r].route = "search" /\ Response(r).status = 200
\* The results are an array and every element is an object with an id
\* that is there and is not empty.
ResultsWithIds(response) ==
  /\ Has(response.body, "results")
  /\ Field(response.body, "results").k = "arr"
  /\ \A i \in 1..Len(Field(response.body, "results").v) :
       LET element == Field(response.body, "results").v[i]
       IN Has(element, "id") /\ Truthy(Field(element, "id"))
\* The reply of r is valid JSON that is no array.
NoArray(r) == Parsed(r).ok /\ Parsed(r).val.k # "arr"
\* The reply of r is a JSON array and `are(item)` holds of one of its items.
ArrayWithSome(r, are(_)) ==
  /\ Parsed(r).ok
  /\ Parsed(r).val.k = "arr"
  /\ \E i \in 1..Len(Parsed(r).val.v) : are(Parsed(r).val.v[i])
IsNull(item) == item.k = "null"
NoObject(item) == item.k # "obj"

\* C17 as stated: every success response of search has an array of results
\* whose elements all have a non-empty id, and a reply that is valid JSON
\* but not an array of objects ends in the single placeholder.
C17_Original ==
  \A r \in Reqs :
    (SearchSuccess(r) /\ Succeeded(r)) =>
      /\ ResultsWithIds(Response(r))
      /\ (Raw(r) # <<>> /\ (NoArray(r) \/ ArrayWithSome(r, NoObject))) =>
           IsPlaceholder(Response(r))

\* C17 amended: every success response of search has an array of results
\* whose elements all have a non-empty id; a reply that is valid JSON but
\* no array (an object, a number, a string, null) or an array containing
\* null ends in the single placeholder, not in an error; an array without
\* null, of objects or not, gives one result for each of its items.
C17_SearchResults ==
  \A r \in Reqs :
    (SearchSuccess(r) /\ Succeeded(r)) =>
      /\ ResultsWithIds(Response(r))
      /\ (Raw(r) # <<>> /\ (NoArray(r) \/ ArrayWithSome(r, IsNull))) =>
           IsPlaceholder(Response(r))
      /\ (Raw(r) # <<>> /\ Parsed(r).ok /\ ~NoArray(r) /\ ~ArrayWithSome(r, IsNull)) =>
           Len(Field(Response(r).body, "results").v) = Len(Parsed(r).val.v)

\* C17 happens: the reply was an array of an object and null, and the
\* search ended in the single placeholder.
C17_Witness ==
  \E r \in Reqs :
    /\ SearchSuccess(r) /\ Succeeded(r)
    /\ ArrayWithSome(r, IsNull)
    /\ Len(Parsed(r).val.v) = 2
    /\ Parsed(r).val.v[1].k = "obj"
    /\ IsPlaceholder(Response(r))

====
